---- MODULE Spec2Model ----
(***************************************************************************)
(* A model of scryptlib/compiler_wrapper.py: the diagnostics classifier    *)
(* (__check_for_errors, __get_warnings and the four regular expressions    *)
(* they use), the AST normalisation pipeline (__ast_filepaths_to_uris,     *)
(* the alias and static-constant tables, the ABI step) and the result      *)
(* assembly of compile, CompilerResult's default arguments included.       *)
(*                                                                         *)
(* Text is a sequence of tokens.  A token is one character (":", "$", a    *)
(* digit, "NL" for a line feed, "SP" for a space, "CR" for a carriage      *)
(* return, "BQ" for a backquote) or a run of letters ("Error", "p", ...):  *)
(* every character class the patterns use treats all the letters of a run  *)
(* alike, and no literal of a pattern starts inside a run.                 *)
(***************************************************************************)
EXTENDS Integers, Sequences, FiniteSets, TLC

VARIABLES
    call,      \* the arguments of the latest invocation of compile, and what
               \* the compiler process and the file system answer it
    pc,        \* "called", "returned" or "raised"
    outcome,   \* how the latest invocation ended
    frame,     \* the locals of compile when it ended
    steps,     \* the functions the latest invocation called, in order
    printed,   \* what the latest invocation printed
    heap,      \* the mutable lists and dicts, by identity
    results,   \* the CompilerResult objects returned so far
    ncalls,    \* the number of invocations so far
    mutated    \* the result the caller's latest step mutated, 0 if none

vars ==
    <<call, pc, outcome, frame, steps, printed, heap, results, ncalls, mutated>>

\* Python's None, and an optional value that is present.
None == <<>>
Some(x) == <<x>>

-----------------------------------------------------------------------------
(* Characters and character classes (Python's re, str patterns).           *)

Digits == {"0", "1", "2", "3", "4", "5", "6", "7", "8", "9"}
Spaces == {"NL", "SP", "CR"}
Puncts == {":", "BQ", "$", "/", "%", ".", ","}

IsDigit(c) == c \in Digits
IsSpace(c) == c \in Spaces
IsWord(c) == c \notin Spaces /\ c \notin Puncts

\* "s" is \s, "S" is [^\s], "N" is [^\n], "dot" is . (no DOTALL), "d" is \d,
\* "w" is \w.
InCls(cls, c) ==
    CASE cls = "s" -> IsSpace(c)
      [] cls = "S" -> ~IsSpace(c)
      [] cls = "N" -> c # "NL"
      [] cls = "dot" -> c # "NL"
      [] cls = "d" -> IsDigit(c)
      [] cls = "w" -> IsWord(c)

DigitVal(c) ==
    CASE c = "0" -> 0 [] c = "1" -> 1 [] c = "2" -> 2 [] c = "3" -> 3
      [] c = "4" -> 4 [] c = "5" -> 5 [] c = "6" -> 6 [] c = "7" -> 7
      [] c = "8" -> 8 [] c = "9" -> 9

\* int(s) of a string of decimal digits.
RECURSIVE ToInt(_)
ToInt(s) ==
    IF s = <<>> THEN 0
    ELSE 10 * ToInt(SubSeq(s, 1, Len(s) - 1)) + DigitVal(s[Len(s)])

-----------------------------------------------------------------------------
(* Regular expressions as syntax trees, and re's backtracking matcher.     *)

Lit(c) == [t |-> "lit", tok |-> c]
Cls(c) == [t |-> "cls", cls |-> c]
Cat(items) == [t |-> "cat", items |-> items]
Alt(items) == [t |-> "alt", items |-> items]
Star(a) == [t |-> "star", a |-> a]
Plus(a) == Cat(<<a, Star(a)>>)
Rep3(a) == Cat(<<a, a, a>>)
\* (...) , (?P<name>...) and the spelling (?<name>...), which re rejects.
Grp(a) == [t |-> "grp", a |-> a]
Named(name, a) == [t |-> "named", name |-> name, a |-> a]
AngleNamed(name, a) == [t |-> "angle", name |-> name, a |-> a]
\* A literal string.
Str(s) == Cat([i \in 1..Len(s) |-> Lit(s[i])])

GroupNames ==
    {"filePath", "line", "column", "line1", "column1", "message",
     "unexpected", "expecting", "varName", "fileIndex"}

NoCaps == [g \in GroupNames |-> None]

\* All the ways re matches at position i of s, in the order its backtracking
\* tries them: the first is the match re reports.  Each is the position after
\* the match and the named groups' captures.
RECURSIVE Match(_, _, _, _), MatchCat(_, _, _, _, _), ThenCat(_, _, _, _, _),
          MatchAlt(_, _, _, _, _), ThenStar(_, _, _, _, _)
Match(re, s, i, caps) ==
    CASE re.t = "lit" ->
           IF i <= Len(s) /\ s[i] = re.tok
           THEN <<[e |-> i + 1, c |-> caps]>> ELSE <<>>
      [] re.t = "cls" ->
           IF i <= Len(s) /\ InCls(re.cls, s[i])
           THEN <<[e |-> i + 1, c |-> caps]>> ELSE <<>>
      [] re.t = "cat" -> MatchCat(re.items, 1, s, i, caps)
      [] re.t = "alt" -> MatchAlt(re.items, 1, s, i, caps)
      [] re.t = "star" ->
           ThenStar(Match(re.a, s, i, caps), 1, re, s, i)
               \o <<[e |-> i, c |-> caps]>>
      [] re.t = "grp" -> Match(re.a, s, i, caps)
      [] re.t \in {"named", "angle"} ->
           LET rs == Match(re.a, s, i, caps)
           IN  [j \in 1..Len(rs) |->
                   [e |-> rs[j].e,
                    c |-> [rs[j].c EXCEPT
                             ![re.name] = Some(SubSeq(s, i, rs[j].e - 1))]]]

MatchCat(items, k, s, i, caps) ==
    IF k > Len(items) THEN <<[e |-> i, c |-> caps]>>
    ELSE ThenCat(Match(items[k], s, i, caps), 1, items, k + 1, s)

ThenCat(rs, j, items, k, s) ==
    IF j > Len(rs) THEN <<>>
    ELSE MatchCat(items, k, s, rs[j].e, rs[j].c)
             \o ThenCat(rs, j + 1, items, k, s)

MatchAlt(items, k, s, i, caps) ==
    IF k > Len(items) THEN <<>>
    ELSE Match(items[k], s, i, caps) \o MatchAlt(items, k + 1, s, i, caps)

ThenStar(rs, j, re, s, i) ==
    IF j > Len(rs) THEN <<>>
    ELSE (IF rs[j].e > i THEN Match(re, s, rs[j].e, rs[j].c) ELSE <<>>)
             \o ThenStar(rs, j + 1, re, s, i)

\* re.compile: a pattern with a group spelled (?<name>...) raises re.error.
RECURSIVE Compiles(_)
Compiles(re) ==
    CASE re.t \in {"lit", "cls"} -> TRUE
      [] re.t \in {"cat", "alt"} ->
           \A k \in 1..Len(re.items) : Compiles(re.items[k])
      [] re.t \in {"star", "grp", "named"} -> Compiles(re.a)
      [] re.t = "angle" -> FALSE

Min(S) == CHOOSE x \in S : \A y \in S : x <= y

\* The positions of s at which re matches.
Starts(re, s) == {i \in 1..Len(s) + 1 : Match(re, s, i, NoCaps) # <<>>}

\* The leftmost match at or after position i, None when there is none; starts
\* is Starts(re, s).
SearchFrom(re, s, starts, i) ==
    LET later == {j \in starts : j >= i}
    IN  IF later = {} THEN None
        ELSE LET first == Match(re, s, Min(later), NoCaps)[1]
             IN  Some([start |-> Min(later), e |-> first.e, c |-> first.c])

\* re.search(re, s)
Search(re, s) == SearchFrom(re, s, Starts(re, s), 1)

\* re.finditer: the non-overlapping matches, left to right.
RECURSIVE FindIterFrom(_, _, _, _)
FindIterFrom(re, s, starts, i) ==
    LET m == SearchFrom(re, s, starts, i)
    IN  IF m = None THEN <<>>
        ELSE <<m[1]>> \o FindIterFrom(re, s, starts,
                 IF m[1].e > m[1].start THEN m[1].e ELSE m[1].e + 1)

FindIter(re, s) == FindIterFrom(re, s, Starts(re, s), 1)

\* match.group(name): None for a group that took no part in the match.
Group(m, name) == m.c[name]

\* The replacement template of re.sub, a sequence of items: Ch(c) is the
\* character c, Ref(g) the reference \g<g> to a named group.  A "$" followed
\* by a digit is no reference: it is two characters that stand for themselves.
Ch(c) == <<"chr", c>>
Ref(g) == <<"ref", g>>
Chars(s) == [i \in 1..Len(s) |-> Ch(s[i])]

RECURSIVE Expand(_, _, _)
Expand(repl, k, m) ==
    IF k > Len(repl) THEN <<>>
    ELSE (IF repl[k][1] = "ref"
          THEN (IF Group(m, repl[k][2]) = None THEN <<>>
                ELSE Group(m, repl[k][2])[1])
          ELSE <<repl[k][2]>>)
             \o Expand(repl, k + 1, m)

\* re.sub(pattern, repl, s), once the pattern is compiled: s with each match
\* of FindIter(re, s), from the k-th on, replaced; i is where the text not yet
\* copied starts.
RECURSIVE SubFrom(_, _, _, _, _)
SubFrom(matches, k, repl, s, i) ==
    IF k > Len(matches) THEN SubSeq(s, i, Len(s))
    ELSE SubSeq(s, i, matches[k].start - 1) \o Expand(repl, 1, matches[k])
             \o SubFrom(matches, k + 1, repl, s, matches[k].e)

\* An exception: its class, the entries of an EntryErrorBase, and its message.
Exc(type, entries, message) ==
    [type |-> type, error_entries |-> entries, message |-> message]

Raise(exc) == [raised |-> TRUE, exc |-> exc, value |-> None]
Return(v) == [raised |-> FALSE, exc |-> Exc("", <<>>, <<>>), value |-> v]

\* re.sub(pattern, repl, s): it compiles the pattern first.
Sub(re, repl, s) ==
    IF Compiles(re) THEN Return(SubFrom(FindIter(re, s), 1, repl, s, 1))
    ELSE Raise(Exc("re.error", <<>>, <<"unknown", "SP", "extension">>))

-----------------------------------------------------------------------------
(* The patterns of compiler_wrapper.py.                                    *)

Path == Plus(Cls("S"))
Number == Plus(Cls("d"))
Line == Plus(Cls("N"))

SYNTAX_ERR_REG ==
    Cat(<<Named("filePath", Path), Lit(":"), Named("line", Number), Lit(":"),
          Named("column", Number), Lit(":"), Lit("NL"),
          Rep3(Grp(Cat(<<Line, Lit("NL")>>))),
          Grp(Alt(<<Cat(<<Str(<<"unexpected", "SP">>),
                          Named("unexpected", Line), Lit("NL"),
                          Str(<<"expecting", "SP">>),
                          Named("expecting", Line)>>),
                    Named("message", Line)>>))>>)

\* The shape the semantic and the warning pattern share, after the marker.
RangedDiagnostic(marker) ==
    Cat(<<Str(<<marker, ":">>), Star(Grp(Alt(<<Cls("s"), Lit("NL")>>))),
          Named("filePath", Path), Lit(":"), Named("line", Number), Lit(":"),
          Named("column", Number), Lit(":"), Named("line1", Number), Lit(":"),
          Named("column1", Number), Star(Lit(":")), Lit("NL"),
          Named("message", Line), Lit("NL")>>)

SEMANTIC_ERR_REG == RangedDiagnostic("Error")

INTERNAL_ERR_REG ==
    Cat(<<Str(<<"Internal", "SP", "error", ":">>),
          Named("message", Plus(Cls("dot")))>>)

WARNING_REG == RangedDiagnostic("Warning")

\* The cross-reference at the end of both message_sub_reg patterns, its groups
\* spelled (?P<name>...) ("named") or (?<name>...) ("angle").
CrossReference(t) ==
    LET named(name, a) == [t |-> t, name |-> name, a |-> a]
    IN  <<named("fileIndex", Path), Lit(":"), named("line", Number), Lit(":"),
          named("column", Number), Lit(":"), named("line1", Number), Lit(":"),
          named("column1", Number)>>

\* message_sub_reg of __check_for_errors and its replacement.
SEMANTIC_SUB_REG ==
    Cat(<<Str(<<"Symbol", "SP", "BQ">>), Named("varName", Plus(Cls("w"))),
          Str(<<"BQ", "SP", "already", "SP", "defined", "SP", "at", "SP">>)>>
        \o CrossReference("named"))

SEMANTIC_SUB_REPL ==
    Chars(<<"Symbol", "SP", "BQ", "$", "1", "BQ", "SP", "already", "SP",
            "defined", "SP", "at", "SP",
            "$", "3", ":", "$", "4", ":", "$", "5", ":", "$", "6">>)

\* message_sub_reg of __get_warnings, its groups spelled (?<name>...), and
\* its replacement.
WARNING_SUB_REG ==
    Cat(<<Str(<<"Variable", "SP", "BQ">>),
          AngleNamed("varName", Plus(Cls("w"))),
          Str(<<"BQ", "SP", "shadows", "SP", "existing", "SP", "binding",
                "SP", "at", "SP">>)>>
        \o CrossReference("angle"))

WARNING_SUB_REPL ==
    Chars(<<"Variable", "SP", "BQ", "$", "1", "BQ", "SP", "shadows", "SP",
            "existing", "SP", "binding", "SP", "at", "SP",
            "$", "3", ":", "$", "4", ":", "$", "5", ":", "$", "6">>)

-----------------------------------------------------------------------------
(* The exception classes, __check_for_errors and __get_warnings.           *)

SyntaxErrorEntry(message, message_full, got, expected, position, file_path) ==
    [message |-> message, message_full |-> message_full, got |-> got,
     expected |-> expected, file_path |-> file_path, position |-> position]

SemanticErrorEntry(message, message_full, position_range, file_path) ==
    [message |-> message, message_full |-> message_full,
     file_path |-> file_path, position_range |-> position_range]

\* '\n'.join(parts)
RECURSIVE JoinLines(_)
JoinLines(parts) ==
    IF parts = <<>> THEN <<>>
    ELSE IF Len(parts) = 1 THEN parts[1]
    ELSE parts[1] \o <<"NL">> \o JoinLines(Tail(parts))

EntryErrorBase(type, error_entries) ==
    Exc(type, error_entries,
        JoinLines([k \in 1..Len(error_entries) |->
                      error_entries[k].message_full]))

\* str.startswith
StartsWith(s, prefix) ==
    Len(s) >= Len(prefix) /\ SubSeq(s, 1, Len(prefix)) = prefix

ERROR_MARKER == <<"Error", ":">>

\* The body of the loop over the syntax matches.
SyntaxEntryOf(match, compiler_output) ==
    SyntaxErrorEntry(Group(match, "message"), compiler_output,
                     Group(match, "unexpected"), Group(match, "expecting"),
                     <<ToInt(Group(match, "line")[1]),
                       ToInt(Group(match, "column")[1])>>,
                     Group(match, "filePath")[1])

\* [(line, col), (line1, col1)] of a semantic or a warning match.
PositionRange(match) ==
    <<<<ToInt(Group(match, "line")[1]), ToInt(Group(match, "column")[1])>>,
      <<ToInt(Group(match, "line1")[1]), ToInt(Group(match, "column1")[1])>>>>

\* The loop over the semantic matches, from match k on: re.sub may raise.
RECURSIVE SemanticEntries(_, _, _)
SemanticEntries(matches, k, compiler_output) ==
    IF k > Len(matches) THEN Return(<<>>)
    ELSE LET match == matches[k]
             message == Sub(SEMANTIC_SUB_REG, SEMANTIC_SUB_REPL,
                            Group(match, "message")[1])
             rest == SemanticEntries(matches, k + 1, compiler_output)
         IN  IF message.raised THEN message
             ELSE IF rest.raised THEN rest
             ELSE Return(<<SemanticErrorEntry(message.value, compiler_output,
                                              PositionRange(match),
                                              Group(match, "filePath")[1])>>
                             \o rest.value)

\* __check_for_errors with the semantic diagnostics looked for before the
\* syntax diagnostics.
check_for_errors_semantic_first(compiler_output) ==
    IF ~StartsWith(compiler_output, ERROR_MARKER) THEN Return(None)
    ELSE
    LET internal == Search(INTERNAL_ERR_REG, compiler_output)
        syntax == FindIter(SYNTAX_ERR_REG, compiler_output)
        syntax_err_entries ==
            [k \in 1..Len(syntax) |-> SyntaxEntryOf(syntax[k], compiler_output)]
        semantic ==
            SemanticEntries(FindIter(SEMANTIC_ERR_REG, compiler_output), 1,
                            compiler_output)
    IN  IF internal # None
        THEN Raise(Exc("InternalError", <<>>,
                       <<"Compiler", "SP", "internal", "SP", "error", ":", "SP">>
                           \o Group(internal[1], "message")[1]))
        ELSE IF semantic.raised THEN semantic
        ELSE IF Len(semantic.value) > 0
        THEN Raise(EntryErrorBase("SemanticError", semantic.value))
        ELSE IF Len(syntax_err_entries) > 0
        THEN Raise(EntryErrorBase("SyntaxError", syntax_err_entries))
        ELSE Raise(Exc("Exception", <<>>, compiler_output))

\* __check_for_errors(compiler_output): returns None or raises.
check_for_errors(compiler_output) ==
    IF ~StartsWith(compiler_output, ERROR_MARKER) THEN Return(None)
    ELSE
    LET internal == Search(INTERNAL_ERR_REG, compiler_output)
        syntax == FindIter(SYNTAX_ERR_REG, compiler_output)
        syntax_err_entries ==
            [k \in 1..Len(syntax) |-> SyntaxEntryOf(syntax[k], compiler_output)]
        semantic ==
            SemanticEntries(FindIter(SEMANTIC_ERR_REG, compiler_output), 1,
                            compiler_output)
    IN  IF internal # None
        THEN Raise(Exc("InternalError", <<>>,
                       <<"Compiler", "SP", "internal", "SP", "error", ":", "SP">>
                           \o Group(internal[1], "message")[1]))
        ELSE IF Len(syntax_err_entries) > 0
        THEN Raise(EntryErrorBase("SyntaxError", syntax_err_entries))
        ELSE IF semantic.raised THEN semantic
        ELSE IF Len(semantic.value) > 0
        THEN Raise(EntryErrorBase("SemanticError", semantic.value))
        ELSE Raise(Exc("Exception", <<>>, compiler_output))

\* The loop of __get_warnings, from match k on: re.sub may raise.
RECURSIVE WarningsFrom(_, _)
WarningsFrom(matches, k) ==
    IF k > Len(matches) THEN Return(<<>>)
    ELSE LET match == matches[k]
             message == Sub(WARNING_SUB_REG, WARNING_SUB_REPL,
                            Group(match, "message")[1])
             rest == WarningsFrom(matches, k + 1)
         IN  IF message.raised THEN message
             ELSE IF rest.raised THEN rest
             ELSE Return(<<<<Group(match, "filePath")[1], PositionRange(match),
                             message.value>>>> \o rest.value)

\* __get_warnings(compiler_output): the list of warnings, or raises.
get_warnings(compiler_output) ==
    WarningsFrom(FindIter(WARNING_REG, compiler_output), 1)

-----------------------------------------------------------------------------
(* Python dicts keep insertion order: a dict is a sequence of <<key, value>> *)
(* pairs with distinct keys.                                                *)

Keys(d) == [k \in 1..Len(d) |-> d[k][1]]
Values(d) == [k \in 1..Len(d) |-> d[k][2]]
HasKey(d, key) == \E k \in 1..Len(d) : d[k][1] = key
IndexOf(d, key) == CHOOSE k \in 1..Len(d) : d[k][1] = key
DictGet(d, key) == d[IndexOf(d, key)][2]
\* d[key] = v
DictSet(d, key, v) ==
    IF HasKey(d, key) THEN [d EXCEPT ![IndexOf(d, key)] = <<key, v>>]
    ELSE Append(d, <<key, v>>)
\* del d[key], and the dict d.pop(key) leaves
DictDel(d, key) == SelectSeq(d, LAMBDA e : e[1] # key)

-----------------------------------------------------------------------------
(* pathlib: Path(key).absolute().as_uri().                                 *)

\* The working directory of the process.
CWD == <<<<"cwd">>>>

STDIN == <<"stdin">>

\* The components of a path string: split at "/", empty components and "."
\* dropped.
RECURSIVE SplitPath(_, _)
SplitPath(s, cur) ==
    IF s = <<>> THEN (IF cur \in {<<>>, <<".">>} THEN <<>> ELSE <<cur>>)
    ELSE IF Head(s) = "/"
    THEN (IF cur \in {<<>>, <<".">>} THEN <<>> ELSE <<cur>>)
             \o SplitPath(Tail(s), <<>>)
    ELSE SplitPath(Tail(s), Append(cur, Head(s)))

PurePath(s) == [abs |-> s # <<>> /\ s[1] = "/", parts |-> SplitPath(s, <<>>)]

\* Path.absolute(): the working directory in front of a relative path.
Absolute(p) == IF p.abs THEN p ELSE [abs |-> TRUE, parts |-> CWD \o p.parts]

\* urllib's quote_from_bytes, as as_uri uses it: ":" is escaped.
RECURSIVE Quote(_)
Quote(s) ==
    IF s = <<>> THEN <<>>
    ELSE (IF Head(s) = ":" THEN <<"%", "3", "A">> ELSE <<Head(s)>>)
             \o Quote(Tail(s))

RECURSIVE QuotedParts(_)
QuotedParts(parts) ==
    IF parts = <<>> THEN <<>>
    ELSE <<"/">> \o Quote(Head(parts)) \o QuotedParts(Tail(parts))

\* Path.as_uri() of an absolute path.
AsUri(p) == <<"file", ":", "/", "/">> \o QuotedParts(p.parts)

AbsoluteUri(s) == AsUri(Absolute(PurePath(s)))

\* The loop of __ast_filepaths_to_uris over keys, from key k on.
RECURSIVE RekeyFrom(_, _, _)
RekeyFrom(asts, keys, k) ==
    IF k > Len(keys) THEN asts
    ELSE LET key == keys[k]
         IN  IF key = STDIN THEN RekeyFrom(asts, keys, k + 1)
             ELSE RekeyFrom(DictSet(DictDel(asts, key), AbsoluteUri(key),
                                    DictGet(asts, key)),
                            keys, k + 1)

\* __ast_filepaths_to_uris with asts[key] in place of asts.pop(key): the
\* module stays under its path as well.
RECURSIVE RekeyKeepingFrom(_, _, _)
RekeyKeepingFrom(asts, keys, k) ==
    IF k > Len(keys) THEN asts
    ELSE LET key == keys[k]
         IN  IF key = STDIN THEN RekeyKeepingFrom(asts, keys, k + 1)
             ELSE RekeyKeepingFrom(DictSet(asts, AbsoluteUri(key),
                                           DictGet(asts, key)),
                                   keys, k + 1)

ast_filepaths_to_uris_keeping(asts) == RekeyKeepingFrom(asts, Keys(asts), 1)

\* __ast_filepaths_to_uris(asts): the dict it leaves.
ast_filepaths_to_uris(asts) == RekeyFrom(asts, Keys(asts), 1)

-----------------------------------------------------------------------------
(* The table builders and the ABI step.                                    *)

\* Concatenation of a sequence of sequences.
RECURSIVE Flatten(_)
Flatten(ss) == IF ss = <<>> THEN <<>> ELSE Head(ss) \o Flatten(Tail(ss))

\* __ast_get_aliases(asts)
ast_get_aliases(asts) ==
    Flatten([k \in 1..Len(asts) |->
        LET ast == asts[k][2]
        IN  [j \in 1..Len(ast.alias) |->
                [name |-> ast.alias[j].alias, type |-> ast.alias[j].type]]])

\* The (name, value) assignments of __ast_get_static_const_int_declarations,
\* in the order of its three loops.
StaticAssignments(asts) ==
    Flatten([k \in 1..Len(asts) |->
        LET contracts == asts[k][2].contracts
        IN  Flatten([c \in 1..Len(contracts) |->
                LET contract == contracts[c]
                IN  [j \in 1..Len(contract.statics) |->
                        <<<<contract.name, ".", contract.statics[j].name>>,
                          contract.statics[j].expr.value>>]])])

\* res[name] = value, for each assignment from the k-th on.
RECURSIVE AssignAll(_, _, _)
AssignAll(res, assignments, k) ==
    IF k > Len(assignments) THEN res
    ELSE AssignAll(DictSet(res, assignments[k][1], assignments[k][2]),
                   assignments, k + 1)

\* __ast_get_static_const_int_declarations(asts)
ast_get_static_const_int_declarations(asts) ==
    AssignAll(<<>>, StaticAssignments(asts), 1)

\* __ast_get_abi_declaration(ast, aliases, static_consts): it prints the last
\* contract and returns None; ast['contracts'][-1] raises on an empty list.
ast_get_abi_declaration(ast, aliases, static_consts) ==
    IF ast.contracts = <<>>
    THEN [raised |-> TRUE, printed |-> <<>>,
          exc |-> Exc("IndexError", <<>>, <<"list index out of range">>),
          value |-> None]
    ELSE [raised |-> FALSE, printed |-> <<ast.contracts[Len(ast.contracts)]>>,
          exc |-> Exc("", <<>>, <<>>), value |-> None]

-----------------------------------------------------------------------------
(* CompilerResult and compile.                                             *)

\* The identity of a list or dict: <<what it was made as, the invocation that
\* made it>>.  The three lists that CompilerResult.__init__ has as default
\* arguments are made once, when the class is defined (invocation 0).
Obj(kind, n) == <<kind, n>>
DefaultLists == {Obj("asm", 0), Obj("warnings", 0), Obj("auto_typed_vars", 0)}

Arg(params, name, default) ==
    IF name \in DOMAIN params THEN params[name] ELSE default

\* CompilerResult(**params): a list or dict field holds a reference.
CompilerResult(params) ==
    [asm |-> Arg(params, "asm", Obj("asm", 0)),
     ast |-> Arg(params, "ast", None),
     dep_ast |-> Arg(params, "dep_ast", None),
     abi |-> Arg(params, "abi", None),
     warnings |-> Arg(params, "warnings", Obj("warnings", 0)),
     compiler_version |-> Arg(params, "compiler_version", None),
     contract |-> Arg(params, "contract", None),
     md5 |-> Arg(params, "md5", None),
     structs |-> Arg(params, "structs", None),
     alias |-> Arg(params, "alias", None),
     source_file |-> Arg(params, "source_file", None),
     auto_typed_vars |-> Arg(params, "auto_typed_vars", Obj("auto_typed_vars", 0))]

\* The options of compile, from its defaults and kwargs; raises as compile does.
parse_kwargs(kwargs) ==
    LET given(name) == name \in DOMAIN kwargs
        asm1 == IF given("asm") THEN kwargs["asm"] ELSE TRUE
        asm2 == IF given("debug") THEN kwargs["debug"] ELSE asm1
        asm3 == IF given("optimize") THEN kwargs["optimize"] ELSE asm2
    IN  IF given("ast") /\ ~given("asm")
        THEN Raise(Exc("KeyError", <<>>, <<"asm">>))
        ELSE IF ~given("out_dir")
        THEN Raise(Exc("Exception", <<>>, <<"Missing argument out_dir">>))
        ELSE IF ~given("compiler_bin")
        THEN Raise(Exc("Exception", <<>>, <<"Missing argument compiler_bin">>))
        ELSE Return([asm |-> asm3, debug |-> TRUE, optimize |-> FALSE,
                     ast |-> IF given("ast") THEN kwargs["asm"] ELSE FALSE,
                     desc |-> IF given("desc") THEN kwargs["desc"] ELSE FALSE,
                     cmd_args |-> given("cmd_args")])

\* The compiler command, without its paths.
cmd_buff(opts, from_file) ==
    <<"scryptc", "compile">>
        \o (IF opts.asm THEN <<"--asm">> ELSE <<>>)
        \o (IF opts.ast \/ opts.desc THEN <<"--ast">> ELSE <<>>)
        \o (IF opts.debug THEN <<"--debug">> ELSE <<>>)
        \o (IF opts.optimize THEN <<"--opt">> ELSE <<>>)
        \o <<"-r", "-o", "out_dir">>
        \o (IF opts.cmd_args THEN <<"cmd_args">> ELSE <<>>)
        \o (IF from_file THEN <<"source">> ELSE <<>>)

\* bytes.replace(b'\r\n', b'\n'): every "CR" that a "NL" follows goes.
ReplaceCRLF(s) ==
    LET indexed == [i \in 1..Len(s) |-> <<i, s[i]>>]
        kept == SelectSeq(indexed,
                    LAMBDA x : ~(x[2] = "CR" /\ x[1] < Len(s)
                                              /\ s[x[1] + 1] = "NL"))
    IN  [i \in 1..Len(kept) |-> kept[i][2]]

\* The locals of compile; None for one not bound yet.
NoFrame ==
    [opts |-> None, source_uri |-> None, cmd_buff |-> None, res |-> None,
     warnings |-> None, ast_obj |-> None, ast_root |-> None,
     static_consts |-> None, aliases |-> None]

\* How an invocation ends: by an exception, or with CompilerResult(**params),
\* the lists and dicts it made being allocs.
Raised(exc, fr, st, pr) ==
    [raised |-> TRUE, exc |-> exc, frame |-> fr, steps |-> st, printed |-> pr,
     params |-> <<>>, allocs |-> <<>>]
Returned(fr, st, pr, params, allocs) ==
    [raised |-> FALSE, exc |-> Exc("", <<>>, <<>>), frame |-> fr, steps |-> st,
     printed |-> pr, params |-> params, allocs |-> allocs]

\* Lines 168-182 of compile: the AST branch.  ast_file is what the file
\* system holds at out_dir/<prefix>_ast.json, None when there is no file.
ast_branch(ast_file, source_uri, fr, st, n) ==
    IF ast_file = None
    THEN Raised(Exc("FileNotFoundError", <<>>, <<"_ast.json">>), fr,
                st \o <<"__load_ast">>, <<>>)
    ELSE
    LET ast_obj == ast_filepaths_to_uris(ast_file[1])
        st1 == st \o <<"__load_ast", "__ast_filepaths_to_uris">>
        fr1 == [fr EXCEPT !.ast_obj = Some(ast_obj)]
    IN  IF ~HasKey(ast_obj, source_uri)
        THEN Raised(Exc("KeyError", <<>>, source_uri), fr1, st1, <<>>)
        ELSE
        LET ast_root == DictGet(ast_obj, source_uri)
            static_consts == ast_get_static_const_int_declarations(ast_obj)
            aliases == ast_get_aliases(ast_obj)
            abi == ast_get_abi_declaration(ast_root, aliases, static_consts)
            dep_ast == DictDel(ast_obj, source_uri)
            st2 == st1 \o <<"__ast_get_static_const_int_declarations",
                            "__ast_get_aliases", "__ast_get_abi_declaration">>
            fr2 == [fr1 EXCEPT !.ast_root = Some(ast_root),
                               !.static_consts = Some(static_consts),
                               !.aliases = Some(aliases)]
        IN  IF abi.raised THEN Raised(abi.exc, fr2, st2, abi.printed)
            ELSE Returned([fr2 EXCEPT !.ast_obj = Some(dep_ast)], st2,
                          abi.printed,
                          [alias |-> Obj("alias", n),
                           source_file |-> Some(source_uri),
                           ast |-> Some(ast_root),
                           abi |-> abi.value,
                           dep_ast |-> Obj("dep_ast", n)],
                          <<<<Obj("alias", n), aliases>>,
                            <<Obj("dep_ast", n), dep_ast>>>>)

\* compile(source, **kwargs), the n-th invocation: c holds the arguments, what
\* the compiler process writes to its standard output (or that it outlives
\* the timeout) and the AST file it leaves.
compile(c, n) ==
    LET kw == parse_kwargs(c.kwargs)
    IN  IF kw.raised THEN Raised(kw.exc, NoFrame, <<>>, <<>>)
        ELSE
        LET opts == kw.value
            from_file == c.source.from_file
            source_uri == IF from_file THEN AbsoluteUri(c.source.path) ELSE STDIN
            fr1 == [NoFrame EXCEPT !.opts = Some(opts),
                                   !.source_uri = Some(source_uri),
                                   !.cmd_buff = Some(cmd_buff(opts, from_file))]
        IN  IF c.timed_out
            THEN Raised(Exc("TimeoutExpired", <<>>, <<>>), fr1,
                        <<"subprocess.run">>, <<>>)
            ELSE
            LET res == ReplaceCRLF(c.stdout)
                errors == check_for_errors(res)
                fr2 == [fr1 EXCEPT !.res = Some(res)]
                st2 == <<"subprocess.run", "__check_for_errors">>
            IN  IF errors.raised THEN Raised(errors.exc, fr2, st2, <<>>)
                ELSE
                LET warnings == get_warnings(res)
                    st3 == st2 \o <<"__get_warnings">>
                IN  IF warnings.raised THEN Raised(warnings.exc, fr2, st3, <<>>)
                    ELSE
                    LET fr3 == [fr2 EXCEPT !.warnings = Some(warnings.value)]
                    IN  IF opts.ast \/ opts.desc
                        THEN ast_branch(c.ast_file, source_uri, fr3, st3, n)
                        ELSE Returned(fr3, st3, <<>>, <<>>, <<>>)

-----------------------------------------------------------------------------
(* What the compiler process can write: diagnostics in the shapes the      *)
(* patterns are written for, one after the other.                          *)

Position(file, a, b) == <<file, ":", a, ":", b, ":", "NL">>
Range(file, a, b, c, d) == <<file, ":", a, ":", b, ":", c, ":", d, ":", "NL">>
Context == <<"ctx", "NL", "ctx", "NL", "ctx", "NL">>
AlreadyDefined ==
    <<"Symbol", "SP", "BQ", "x", "BQ", "SP", "already", "SP", "defined", "SP",
      "at", "SP", "p", ":", "1", ":", "2", ":", "3", ":", "4">>
Shadows ==
    <<"Variable", "SP", "BQ", "x", "BQ", "SP", "shadows", "SP", "existing",
      "SP", "binding", "SP", "at", "SP", "p", ":", "1", ":", "2", ":", "3",
      ":", "4">>

RECURSIVE WithCRLF(_)
WithCRLF(s) ==
    IF s = <<>> THEN <<>>
    ELSE (IF Head(s) = "NL" THEN <<"CR", "NL">> ELSE <<Head(s)>>)
             \o WithCRLF(Tail(s))

SemanticBlocks == {"sem", "semdef"}
SyntaxBlocks == {"syn", "synfree"}
WarningBlocks == {"warn", "warnshadow"}
Blocks ==
    SemanticBlocks \cup SyntaxBlocks \cup WarningBlocks
        \cup {"internal", "junk", "plain", "semcrlf"}

BlockText(b) ==
    CASE b = "sem" ->
           <<"Error", ":", "NL">> \o Range("p", "1", "2", "3", "4")
               \o <<"msg", "NL">>
      [] b = "semdef" ->
           <<"Error", ":", "NL">> \o Range("q", "5", "6", "7", "8")
               \o AlreadyDefined \o <<"NL">>
      [] b = "syn" ->
           <<"Error", ":", "NL">> \o Position("p", "3", "1") \o Context
               \o <<"unexpected", "SP", "else", "NL",
                    "expecting", "SP", "end", "NL">>
      [] b = "synfree" ->
           <<"Error", ":", "NL">> \o Position("q", "7", "4") \o Context
               \o <<"msg", "NL">>
      [] b = "warn" ->
           <<"Warning", ":", "NL">> \o Range("p", "1", "2", "3", "4")
               \o <<"msg", "NL">>
      [] b = "warnshadow" ->
           <<"Warning", ":", "NL">> \o Range("q", "5", "6", "7", "8")
               \o Shadows \o <<"NL">>
      [] b = "internal" ->
           <<"Error", ":", "SP", "Internal", "SP", "error", ":", "boom", "NL">>
      [] b = "junk" -> <<"Error", ":", "SP", "junk", "NL">>
      [] b = "plain" -> <<"ok", "NL">>
      [] b = "semcrlf" ->
           WithCRLF(<<"Error", ":", "NL">> \o Range("p", "1", "2", "3", "4")
                        \o <<"msg", "NL">>)

\* The text of a sequence of blocks.
TextOf(blocks) == Flatten([k \in 1..Len(blocks) |-> BlockText(blocks[k])])

\* At most MaxBlocks diagnostics in one output.
MaxBlocks == 2

BlockSeqs(n) == UNION {[1..k -> Blocks] : k \in 0..n}

-----------------------------------------------------------------------------
(* What the compiler can leave in <prefix>_ast.json: one module per source *)
(* file, under the file's path or under "stdin".                           *)

Static(name, value) == [name |-> name, expr |-> [value |-> value]]

ModA ==
    [contracts |-> <<[name |-> "A", statics |-> <<Static("N", 5)>>]>>,
     alias |-> <<[alias |-> "Age", type |-> "int"]>>]
ModB ==
    [contracts |-> <<[name |-> "B", statics |-> <<Static("M", 10)>>]>>,
     alias |-> <<>>]
\* Another module that declares A.N.
ModA7 ==
    [contracts |-> <<[name |-> "A", statics |-> <<Static("N", 7)>>]>>,
     alias |-> <<[alias |-> "Age", type |-> "bytes"]>>]
\* Two contracts, the first declaring K twice.
ModLib ==
    [contracts |-> <<[name |-> "L",
                      statics |-> <<Static("K", 1), Static("K", 2)>>],
                     [name |-> "Main", statics |-> <<>>]>>,
     alias |-> <<>>]
ModEmpty == [contracts |-> <<>>, alias |-> <<>>]

Modules == {ModA, ModB, ModA7, ModLib, ModEmpty}

RelA == <<"a">>
AbsA == <<"/", "cwd", "/", "a">>
RelB == <<"b">>
AbsC == <<"/", "x", "/", "c">>
RawKeys == {STDIN, RelA, AbsA, RelB, AbsC}

\* The source file a key names.
FileOf(key) == IF key = STDIN THEN STDIN ELSE AbsoluteUri(key)

\* At most MaxModules modules in one dump.
MaxModules == 3

\* The dumps: no two keys of a dump name the same source file.
Dumps(n) ==
    {d \in UNION {[1..k -> RawKeys \X Modules] : k \in 1..n} :
        \A i, j \in 1..Len(d) : i # j => FileOf(d[i][1]) # FileOf(d[j][1])}

TextSource == [from_file |-> FALSE, path |-> <<>>]
FileSource(path) == [from_file |-> TRUE, path |-> path]
Sources == {TextSource, FileSource(RelA), FileSource(AbsC)}

-----------------------------------------------------------------------------
(* The keyword arguments.                                                  *)

KwBase == [out_dir |-> "out", compiler_bin |-> "scryptc"]
KwDesc == [out_dir |-> "out", compiler_bin |-> "scryptc", desc |-> TRUE]
KwAst ==
    [out_dir |-> "out", compiler_bin |-> "scryptc", asm |-> TRUE, ast |-> TRUE]
KwAstAsmOff ==
    [out_dir |-> "out", compiler_bin |-> "scryptc", asm |-> FALSE, ast |-> TRUE]
KwAstOnly == [out_dir |-> "out", compiler_bin |-> "scryptc", ast |-> TRUE]
KwDebugOff ==
    [out_dir |-> "out", compiler_bin |-> "scryptc", debug |-> FALSE,
     desc |-> FALSE, cmd_args |-> "--std"]
KwOptimize ==
    [out_dir |-> "out", compiler_bin |-> "scryptc", optimize |-> TRUE,
     desc |-> TRUE, timeout |-> 10, cwd |-> "."]
KwNoOutDir == [compiler_bin |-> "scryptc", desc |-> TRUE]
KwNoCompiler == [out_dir |-> "out"]

Kwargs ==
    {KwBase, KwDesc, KwAst, KwAstAsmOff, KwAstOnly, KwDebugOff, KwOptimize,
     KwNoOutDir, KwNoCompiler}

-----------------------------------------------------------------------------
(* The state machine: a caller that invokes compile, keeps the results and *)
(* may change the lists and dicts they hold.                               *)

Invocation(source, kwargs, blocks, timed_out, ast_file) ==
    [source |-> source, kwargs |-> kwargs, blocks |-> blocks,
     stdout |-> TextOf(blocks), timed_out |-> timed_out, ast_file |-> ast_file]

NoOutcome == [exc |-> Exc("", <<>>, <<>>), result |-> 0]

InitWith(calls) ==
    /\ call \in calls
    /\ pc = "called"
    /\ outcome = NoOutcome
    /\ frame = NoFrame
    /\ steps = <<>>
    /\ printed = <<>>
    /\ heap = [o \in DefaultLists |-> <<>>]
    /\ results = <<>>
    /\ ncalls = 1
    /\ mutated = 0

\* The heap after the allocations allocs.
Allocate(h, allocs) ==
    [o \in DOMAIN h \cup {allocs[k][1] : k \in 1..Len(allocs)} |->
        IF \E k \in 1..Len(allocs) : allocs[k][1] = o
        THEN allocs[CHOOSE k \in 1..Len(allocs) : allocs[k][1] = o][2]
        ELSE h[o]]

\* compile runs from its call to its return or its exception.
Compile ==
    /\ pc = "called"
    /\ \E r \in {compile(call, ncalls)} :
           /\ pc' = IF r.raised THEN "raised" ELSE "returned"
           /\ outcome' = [exc |-> r.exc,
                          result |-> IF r.raised THEN 0 ELSE Len(results) + 1]
           /\ frame' = r.frame
           /\ steps' = r.steps
           /\ printed' = r.printed
           /\ heap' = Allocate(heap, r.allocs)
           /\ results' = IF r.raised THEN results
                         ELSE Append(results, CompilerResult(r.params))
    /\ mutated' = 0
    /\ UNCHANGED <<call, ncalls>>

\* At most MaxCalls invocations.
MaxCalls == 2

\* The caller invokes compile again.
Invoke(c) ==
    /\ pc # "called"
    /\ ncalls < MaxCalls
    /\ call' = c
    /\ pc' = "called"
    /\ ncalls' = ncalls + 1
    /\ outcome' = NoOutcome
    /\ frame' = NoFrame
    /\ steps' = <<>>
    /\ printed' = <<>>
    /\ mutated' = 0
    /\ UNCHANGED <<heap, results>>

ContainerFields == {"asm", "warnings", "auto_typed_vars", "alias", "dep_ast"}

\* The caller's lists and dicts grow to MaxLen items at most.
MaxLen == 2

\* The caller adds an item to a list or dict of the i-th result.
Mutate(i, field) ==
    /\ pc # "called"
    /\ i \in 1..Len(results)
    /\ results[i][field] # None
    /\ Len(heap[results[i][field]]) < MaxLen
    /\ heap' = [heap EXCEPT ![results[i][field]] =
                   IF field = "dep_ast" THEN DictSet(@, <<"added">>, ModEmpty)
                   ELSE Append(@, <<"added">>)]
    /\ mutated' = i
    /\ UNCHANGED <<call, pc, outcome, frame, steps, printed, results, ncalls>>

DumpStdin == <<<<STDIN, ModA>>, <<RelB, ModB>>>>
DumpFile == <<<<RelB, ModEmpty>>, <<RelA, ModLib>>>>

\* The invocations of the caller model.
Calls ==
    {Invocation(source, kwargs, <<>>, FALSE, Some(DumpStdin)) :
        source \in {TextSource, FileSource(RelA)}, kwargs \in Kwargs}
    \cup
    {Invocation(source, KwDesc, blocks, timed_out, ast_file) :
        source \in {TextSource, FileSource(RelA), FileSource(RelB)},
        blocks \in {<<"plain">>, <<"sem">>},
        timed_out \in BOOLEAN,
        ast_file \in {None, Some(DumpFile)}}

Init == InitWith(Calls)

Next ==
    \/ Compile
    \/ \E c \in Calls : Invoke(c)
    \/ \E i \in 1..MaxCalls, field \in ContainerFields : Mutate(i, field)

Spec == Init /\ [][Next]_vars

\* The classifier and the warning collector on every output of at most
\* MaxBlocks diagnostics.
DiagCalls ==
    {Invocation(TextSource, KwBase, blocks, FALSE, Some(DumpStdin)) :
        blocks \in BlockSeqs(MaxBlocks)}

InitDiag == InitWith(DiagCalls)

NextDiag == Compile

SpecDiag == InitDiag /\ [][NextDiag]_vars

\* The AST pipeline on every dump of at most MaxModules modules.
AstCalls ==
    {Invocation(source, KwDesc, <<"plain">>, FALSE, ast_file) :
        source \in Sources,
        ast_file \in {None} \cup {Some(d) : d \in Dumps(MaxModules)}}
    \cup
    {Invocation(source, kwargs, <<"plain">>, FALSE, Some(DumpFile)) :
        source \in Sources, kwargs \in {KwBase, KwAst, KwAstAsmOff}}

InitAst == InitWith(AstCalls)

NextAst == Compile

SpecAst == InitAst /\ [][NextAst]_vars

-----------------------------------------------------------------------------
(* The properties.                                                         *)

\* compile has just ended, by a return or by an exception.
JustEnded == pc # "called" /\ mutated = 0
JustReturned == pc = "returned" /\ mutated = 0
\* The result of the latest invocation, when it returned.
LatestResult == results[outcome.result]
\* How the latest invocation ended.
Ending == IF pc = "raised" THEN outcome.exc.type ELSE pc
SetOf(seq) == {seq[k] : k \in 1..Len(seq)}
\* The compiler was asked for its AST output.
AstRequested == frame.cmd_buff # None /\ "--ast" \in SetOf(frame.cmd_buff[1])
\* The source's absolute URI, or "stdin" for a text source.
PrimaryIdentity ==
    IF call.source.from_file THEN AbsoluteUri(call.source.path) ELSE STDIN

\* C1: for an output that begins with "Error:", __check_for_errors raises
\* exactly one failure, chosen by the priority internal > syntax > semantic >
\* generic: InternalError if the internal pattern matches anywhere; otherwise
\* SyntaxError, with one entry per syntax match and nothing else, if there is
\* a syntax match; otherwise SemanticError, with one entry per semantic match,
\* if there is one; otherwise a generic exception that carries the whole text.
C1_FailureByFixedPriority ==
    (JustEnded /\ frame.res # None /\ StartsWith(frame.res[1], ERROR_MARKER)) =>
        LET text == frame.res[1]
            exc == outcome.exc
            internal == Starts(INTERNAL_ERR_REG, text) # {}
            syntax == FindIter(SYNTAX_ERR_REG, text)
            semantic == FindIter(SEMANTIC_ERR_REG, text)
        IN  /\ pc = "raised"
            /\ steps = <<"subprocess.run", "__check_for_errors">>
            /\ internal =>
                 exc.type = "InternalError" /\ exc.error_entries = <<>>
            /\ (~internal /\ syntax # <<>>) =>
                 /\ exc.type = "SyntaxError"
                 /\ Len(exc.error_entries) = Len(syntax)
                 /\ \A k \in 1..Len(syntax) :
                        /\ "position_range" \notin DOMAIN exc.error_entries[k]
                        /\ exc.error_entries[k].file_path
                               = Group(syntax[k], "filePath")[1]
            /\ (~internal /\ syntax = <<>> /\ semantic # <<>>) =>
                 /\ exc.type = "SemanticError"
                 /\ Len(exc.error_entries) = Len(semantic)
                 /\ \A k \in 1..Len(semantic) :
                        /\ "position" \notin DOMAIN exc.error_entries[k]
                        /\ exc.error_entries[k].file_path
                               = Group(semantic[k], "filePath")[1]
            /\ (~internal /\ syntax = <<>> /\ semantic = <<>>) =>
                 /\ exc.type = "Exception"
                 /\ exc.message = text
                 /\ exc.error_entries = <<>>

\* A SyntaxError for an output that also holds a semantic diagnostic.
C1_Witness ==
    /\ JustEnded
    /\ outcome.exc.type = "SyntaxError"
    /\ "syn" \in SetOf(call.blocks)
    /\ FindIter(SEMANTIC_ERR_REG, frame.res[1]) # <<>>

\* C2: for an output that does not begin with "Error:", compile raises nothing
\* and the result's warnings are the warning diagnostics of the output (file,
\* start, end), in order of appearance.
C2_WarningsReturned ==
    (JustEnded /\ frame.res # None /\ ~StartsWith(frame.res[1], ERROR_MARKER)) =>
        LET matches == FindIter(WARNING_REG, frame.res[1])
        IN  /\ pc = "returned"
            /\ LET warnings == heap[LatestResult.warnings]
               IN  /\ Len(warnings) = Len(matches)
                   /\ \A k \in 1..Len(matches) :
                          /\ warnings[k][1] = Group(matches[k], "filePath")[1]
                          /\ warnings[k][2] = PositionRange(matches[k])

\* The latest invocation, had the compiler written no warning.
WithoutWarnings ==
    LET blocks == SelectSeq(call.blocks, LAMBDA b : b \notin WarningBlocks)
    IN  [call EXCEPT !.blocks = blocks, !.stdout = TextOf(blocks)]

\* C3: the warning scan runs on every invocation, also when the classifier
\* raised: the warnings of the whole output are collected in order of
\* appearance, and the warnings written do not change how the invocation ends.
C3_WarningScanOnEveryInvocation ==
    (JustEnded /\ frame.res # None) =>
        /\ "__get_warnings" \in SetOf(steps)
        /\ frame.warnings # None
        /\ Len(frame.warnings[1]) = Len(FindIter(WARNING_REG, frame.res[1]))
        /\ LET other == compile(WithoutWarnings, ncalls)
           IN  Ending = IF other.raised THEN other.exc.type ELSE "returned"

\* The AST mapping of the latest invocation, after __ast_filepaths_to_uris.
NormalizedAsts == ast_filepaths_to_uris(call.ast_file[1])

\* C4: the static-constant extraction never overwrites silently: when it
\* ends without a failure, no qualified name was met twice.
C4_NoSilentOverwrite ==
    (JustEnded /\ frame.static_consts # None) =>
        LET met == StaticAssignments(NormalizedAsts)
        IN  \A i, j \in 1..Len(met) : i < j => met[i][1] # met[j][1]

\* C5: when compile returns and the AST output was requested, result.ast is
\* the primary module, and result.dep_ast holds every other module of the
\* loaded mapping under its canonical URI, and nothing under the primary
\* module's identity.
C5_PrimaryOutOfDependencies ==
    (JustReturned /\ AstRequested) =>
        LET raw == call.ast_file[1]
            others == {k \in 1..Len(raw) : FileOf(raw[k][1]) # PrimaryIdentity}
        IN  /\ LatestResult.dep_ast # None
            /\ LatestResult.source_file = Some(PrimaryIdentity)
            /\ \E k \in 1..Len(raw) :
                   /\ FileOf(raw[k][1]) = PrimaryIdentity
                   /\ LatestResult.ast = Some(raw[k][2])
            /\ LET dep_ast == heap[LatestResult.dep_ast]
               IN  /\ ~HasKey(dep_ast, PrimaryIdentity)
                   /\ SetOf(Keys(dep_ast)) = {FileOf(raw[k][1]) : k \in others}
                   /\ \A k \in others :
                          DictGet(dep_ast, FileOf(raw[k][1])) = raw[k][2]

\* A file source named by a relative path, with two dependencies.
C5_Witness ==
    /\ JustReturned
    /\ AstRequested
    /\ call.source = FileSource(RelA)
    /\ Len(call.ast_file[1]) = 3
    /\ Len(heap[LatestResult.dep_ast]) = 2

\* C6: __ast_filepaths_to_uris is idempotent: applied to its own output, it
\* leaves every key and module unchanged.
C6_NormalizationIdempotent ==
    (JustEnded /\ "__ast_filepaths_to_uris" \in SetOf(steps)) =>
        ast_filepaths_to_uris(NormalizedAsts) = NormalizedAsts

\* The replacement the normalizer is meant to make in a semantic message.
CANONICAL_SEMANTIC_REPL ==
    Chars(<<"Symbol", "SP", "BQ">>) \o <<Ref("varName")>>
        \o Chars(<<"BQ", "SP", "already", "SP", "defined", "SP", "at", "SP">>)
        \o <<Ref("line"), Ch(":"), Ref("column"), Ch(":"), Ref("line1"),
             Ch(":"), Ref("column1")>>

\* C7: the normalizer rewrites only the position of the cross-reference,
\* to line:column:line1:column1, and keeps the rest of the message, the symbol
\* name included; a message without a cross-reference is unchanged; and
\* normalizing never makes the parse fail.
C7_NormalizerKeepsMessage ==
    (JustEnded /\ frame.res # None) =>
        /\ outcome.exc.type # "re.error"
        /\ outcome.exc.type = "SemanticError" =>
             LET matches == FindIter(SEMANTIC_ERR_REG, frame.res[1])
             IN  \A k \in 1..Len(matches) :
                     LET message == Group(matches[k], "message")[1]
                     IN  outcome.exc.error_entries[k].message
                             = SubFrom(FindIter(SEMANTIC_SUB_REG, message), 1,
                                       CANONICAL_SEMANTIC_REPL, message, 1)

\* C8: when the AST output was requested and compile returns, the result's
\* abi is a descriptor, never None.
C8_AbiPopulated ==
    (JustReturned /\ AstRequested) => LatestResult.abi # None

\* What the container fields of the j-th result hold.
Contents(j) ==
    [f \in ContainerFields |->
        IF results[j][f] = None THEN None ELSE Some(heap[results[j][f]])]

\* C9: results of distinct invocations share no mutable state: a change of a
\* container field of one result leaves the fields of every other result
\* unchanged.
C9_NoSharedMutableState ==
    [][\A j \in 1..Len(results) :
           (mutated' # 0 /\ mutated' # j) => Contents(j)' = Contents(j)]_vars

BlockFile(b) == IF b = "sem" THEN <<"p">> ELSE <<"q">>
BlockRange(b) ==
    IF b = "sem" THEN <<<<1, 2>>, <<3, 4>>>> ELSE <<<<5, 6>>, <<7, 8>>>>

\* C10: an output of n >= 1 semantic diagnostics and nothing else yields a
\* SemanticError with n entries in order of appearance, each with its file
\* and its range; never a SyntaxError.
C10_SemanticDiagnosticsListed ==
    (JustEnded /\ call.blocks # <<>>
               /\ \A k \in 1..Len(call.blocks) : call.blocks[k] \in SemanticBlocks) =>
        /\ pc = "raised"
        /\ outcome.exc.type = "SemanticError"
        /\ Len(outcome.exc.error_entries) = Len(call.blocks)
        /\ \A k \in 1..Len(call.blocks) :
               /\ outcome.exc.error_entries[k].file_path
                      = BlockFile(call.blocks[k])
               /\ outcome.exc.error_entries[k].position_range
                      = BlockRange(call.blocks[k])

====
